---- MODULE Spec2Model ----
(***************************************************************************)
(* A model of the IPC router of mcbe-addon-ipc (router.ts, with the        *)
(* dispatch and stream-splitting code of index.ts).  Strings are sequences *)
(* of characters, so that slicing, splitting on the first space and        *)
(* concatenation are computed as the code computes them.                   *)
(***************************************************************************)
EXTENDS Integers, Sequences, FiniteSets, TLC

(***************************************************************************)
(* Program constants.                                                      *)
(***************************************************************************)
MAX_MESSAGE_LENGTH == 428
MAX_NAMESPACE_LENGTH == 30
STREAM_MESSAGE_PADDING == MAX_NAMESPACE_LENGTH + 5
\* the delay handed to system.runTimeout by invokeInternal / invokeStreamInternal
TIMEOUT_TICKS == 20

(***************************************************************************)
(* Characters and strings.                                                 *)
(***************************************************************************)
SP == " "
\* U+2028 LINE SEPARATOR: JSON.stringify emits it raw inside a string, and the
\* regular expression dot does not match it.
LS == "LS"
QUOTE == "\""
\* the value of a destructured array element that does not exist
Undefined == <<"undefined">>

Min(S) == CHOOSE x \in S : \A y \in S : x <= y

Rep(c, n) == [i \in 1..n |-> c]

\* String(x) as applied by the + operator: undefined becomes "undefined"
ToStr(s) == IF s = Undefined THEN <<"u", "n", "d", "e", "f", "i", "n", "e", "d">> ELSE s

\* a + b on strings
Concat(a, b) == ToStr(a) \o ToStr(b)

\* s.slice(from, to), 0-based, end exclusive, clamped to the string
Slice(s, from, to) == SubSeq(s, from + 1, IF to < Len(s) THEN to ELSE Len(s))

\* s.slice(from)
SliceFrom(s, from) == Slice(s, from, Len(s))

(***************************************************************************)
(* The regular-expression split on a space followed by a greedy dot group, *)
(* as the code destructures it: the first two elements of                  *)
(* the result.  The first match starts at the first space; the group       *)
(* captures up to, not including, the next line terminator, because the    *)
(* dot matches no line terminator.  Without a space the array has one      *)
(* element and the second is undefined.                                    *)
(***************************************************************************)
IsLineTerminator(c) == c = LS

splitFirst(s) ==
    LET spaces == {i \in 1..Len(s) : s[i] = SP}
    IN  IF spaces = {}
        THEN <<s, Undefined>>
        ELSE LET q == Min(spaces)
                 terms == {i \in (q + 1)..Len(s) : IsLineTerminator(s[i])}
                 e == IF terms = {} THEN Len(s) ELSE Min(terms) - 1
             IN  <<SubSeq(s, 1, q - 1), SubSeq(s, q + 1, e)>>

(***************************************************************************)
(* Values and the serializer.  A value is null, a string, the reserved-key *)
(* object {__IPCFAILURE__: m}, or (never serialized) a Failure.            *)
(***************************************************************************)
Null == [t |-> "null", s |-> <<>>]
StrV(s) == [t |-> "string", s |-> s]
Envelope(m) == [t |-> "envelope", s |-> m]
Failure(m) == [t |-> "Failure", s |-> m]
SyntaxError == [t |-> "SyntaxError", s |-> <<>>]

NullText == <<"n", "u", "l", "l">>
EnvelopeOpen ==
    <<"{", QUOTE, "_", "_", "I", "P", "C", "F", "A", "I", "L", "U", "R", "E", "_", "_",
      QUOTE, ":", QUOTE>>
EnvelopeClose == <<QUOTE, "}">>

\* JSON.stringify(v)
stringify(v) ==
    CASE v.t = "null" -> NullText
      [] v.t = "string" -> <<QUOTE>> \o v.s \o <<QUOTE>>
      [] v.t = "envelope" -> EnvelopeOpen \o v.s \o EnvelopeClose

NoQuote(s) == \A i \in 1..Len(s) : s[i] # QUOTE

\* JSON.parse(text): a SyntaxError for every text that is not the serialization
\* of a value (a truncated string, the empty string, "undefined")
parse(text0) ==
    LET text == ToStr(text0)
        n == Len(text)
        o == Len(EnvelopeOpen)
    IN  IF text = NullText THEN Null
        ELSE IF n >= 2 /\ text[1] = QUOTE /\ text[n] = QUOTE /\ NoQuote(SubSeq(text, 2, n - 1))
        THEN StrV(SubSeq(text, 2, n - 1))
        ELSE IF n >= o + 2 /\ SubSeq(text, 1, o) = EnvelopeOpen
                /\ SubSeq(text, n - 1, n) = EnvelopeClose
                /\ NoQuote(SubSeq(text, o + 1, n - 2))
        THEN Envelope(SubSeq(text, o + 1, n - 2))
        ELSE SyntaxError

\* mutant: the reserved key is not reinterpreted as a Failure
parseRawPayloadPlain(rawPayload) == parse(rawPayload)

\* Router.parseRawPayload: SyntaxError stands for the exception JSON.parse throws
parseRawPayload(rawPayload) ==
    LET payload == parse(rawPayload)
    IN  IF payload.t = "envelope" THEN Failure(payload.s) ELSE payload

(***************************************************************************)
(* Identifiers.                                                            *)
(***************************************************************************)
Digits36 ==
    <<"0", "1", "2", "3", "4", "5", "6", "7", "8", "9", "a", "b", "c", "d", "e", "f",
      "g", "h", "i", "j", "k", "l", "m", "n", "o", "p", "q", "r", "s", "t", "u", "v",
      "w", "x", "y", "z">>

RECURSIVE toString36(_)
toString36(n) ==
    IF n < 36 THEN <<Digits36[n + 1]>>
    ELSE toString36(n \div 36) \o <<Digits36[(n % 36) + 1]>>

\* mutant: the counter does not take part in the id
generateListenerUidFixed(uid, generated) == uid \o <<":", "_", "_", "0">>

generateListenerUid(uid, generated) == uid \o <<":", "_", "_">> \o toString36(generated)

generateStreamUid(uid, generated) == uid \o toString36(generated)

(***************************************************************************)
(* The outbound splitter (streamScriptEvent).                              *)
(***************************************************************************)
\* mutant: the fragments leave no room for the stream id and the flags
maxMessageLengthNoPadding == MAX_MESSAGE_LENGTH

maxMessageLengthWithPadding == MAX_MESSAGE_LENGTH - STREAM_MESSAGE_PADDING

RECURSIVE splitLoop(_)
splitLoop(parts) ==
    LET lastPart == parts[Len(parts)]
        left == Slice(lastPart, 0, maxMessageLengthWithPadding)
        right == SliceFrom(lastPart, maxMessageLengthWithPadding)
        front == SubSeq(parts, 1, Len(parts) - 1)
    IN  IF Len(lastPart) <= maxMessageLengthWithPadding
        THEN parts
        ELSE splitLoop(IF Len(right) > 0 THEN front \o <<left, right>> ELSE front \o <<left>>)

streamParts(stringifiedPayload) == splitLoop(<<stringifiedPayload>>)

\* the message of each chunk, in emission order
streamMessages(streamId, stringifiedPayload) ==
    LET parts == streamParts(stringifiedPayload)
    IN  [i \in 1..Len(parts) |->
            streamId \o <<SP, IF i >= Len(parts) THEN "t" ELSE "f", SP>> \o parts[i]]

(***************************************************************************)
(* Frames.  The type flag is the first character of the message.           *)
(***************************************************************************)
F_SEND == "S"
F_INVOKE == "I"
F_SEND_STREAM == "s"
F_INVOKE_STREAM == "i"
MAX_EVENT_ID_LENGTH == 70

Frame(id, message) == [id |-> id, message |-> message]

\* mutant: the length of the message is not checked
dispatchThrowsOnIdOnly(event, message, force) ==
    /\ ~force
    /\ Len(event) > MAX_EVENT_ID_LENGTH

\* the checks of dispatchScriptEvent: TRUE when the dispatch throws
dispatchThrows(event, message, force) ==
    /\ ~force
    /\ \/ Len(event) > MAX_EVENT_ID_LENGTH
       \/ Len(message) > MAX_MESSAGE_LENGTH

\* sendStreamInternal: the frames of one stream, in emission order
streamFrames(flag, event, content, streamId) ==
    LET messages == streamMessages(streamId, content)
    IN  [i \in 1..Len(messages) |-> Frame(event, <<flag>> \o messages[i])]

(***************************************************************************)
(* Finite maps (Map<string, _>).                                           *)
(***************************************************************************)
EmptyMap == [x \in {} |-> {}]
Has(m, k) == k \in DOMAIN m
Put(m, k, v) == [x \in (DOMAIN m) \cup {k} |-> IF x = k THEN v ELSE m[x]]
Delete(m, k) == [x \in (DOMAIN m) \ {k} |-> m[x]]

(***************************************************************************)
(* Listeners.  An application listener is described by what it returns     *)
(* (a value, a Failure, Echo for the payload it was given, or Thrown when  *)
(* it throws) and by whether it suspends before it completes.  A response listener is the closure that  *)
(* invokeInternal / invokeStreamInternal installs for invoke number inv.   *)
(***************************************************************************)
Thrown == [t |-> "throw", s |-> <<>>]
Echo == [t |-> "echo", s |-> <<>>]
\* what an application listener returns (or Thrown) for a payload
resultOf(listener, payload) == IF listener.ret = Echo THEN payload ELSE listener.ret
AppListener(ret, susp) == [kind |-> "app", ret |-> ret, susp |-> susp, inv |-> 0]
ResponseListener(i) == [kind |-> "response", ret |-> Null, susp |-> FALSE, inv |-> i]

TimeoutError == [t |-> "Timeout", s |-> <<>>]
OversizeError == [t |-> "Oversize", s |-> <<>>]
Pending == [s |-> "pending", v |-> Null]
Resolved(v) == [s |-> "resolved", v |-> v]
Rejected(e) == [s |-> "rejected", v |-> e]

\* resolve / reject of a promise: only the first settles it
settle(outcome, new) == IF outcome.s = "pending" THEN new ELSE outcome

(***************************************************************************)
(* The routers.                                                            *)
(***************************************************************************)
Routers == {"a", "b"}

VARIABLES
    uid,                    \* router -> its uid (empty while not constructed)
    subscribers,            \* the routers subscribed to scriptEventReceive, in order
    isValid,                \* router -> internalIsValid
    listeners,              \* router -> Map<event id, listener>
    pendingStreams,         \* router -> Map<stream id, cached content>
    listenerUidsGenerated,  \* router -> counter
    streamUidsGenerated,    \* router -> counter
    transport,              \* frames dispatched and not yet delivered, in order
    jobs,                   \* outbound streams: the chunk frames still to be emitted
    invokes,                \* the promises returned by invoke / invokeStream / invokeAuto
    tasks,                  \* listener invocations that are suspended
    sent,                   \* history: every frame handed to the transport
    calls,                  \* history: every dispatch of a frame to a listener
    sends,                  \* history: every send / sendStream / sendAuto call
    uncaught,               \* history: errors that nothing caught
    ret                     \* outcome of the last constructor / registerListener /
                            \* removeListener / destroy call

Uid(r) == uid[r]

vars == <<uid, subscribers, isValid, listeners, pendingStreams, listenerUidsGenerated, streamUidsGenerated,
          transport, jobs, invokes, tasks, sent, calls, sends, uncaught, ret>>

State ==
    [uid |-> uid, subscribers |-> subscribers,
     isValid |-> isValid, listeners |-> listeners, pendingStreams |-> pendingStreams,
     listenerUidsGenerated |-> listenerUidsGenerated,
     streamUidsGenerated |-> streamUidsGenerated, transport |-> transport, jobs |-> jobs,
     invokes |-> invokes, tasks |-> tasks, sent |-> sent, calls |-> calls,
     sends |-> sends, uncaught |-> uncaught, ret |-> ret]

Becomes(st) ==
    /\ uid' = st.uid
    /\ subscribers' = st.subscribers
    /\ isValid' = st.isValid
    /\ listeners' = st.listeners
    /\ pendingStreams' = st.pendingStreams
    /\ listenerUidsGenerated' = st.listenerUidsGenerated
    /\ streamUidsGenerated' = st.streamUidsGenerated
    /\ transport' = st.transport
    /\ jobs' = st.jobs
    /\ invokes' = st.invokes
    /\ tasks' = st.tasks
    /\ sent' = st.sent
    /\ calls' = st.calls
    /\ sends' = st.sends
    /\ uncaught' = st.uncaught
    /\ ret' = st.ret

NoCause == [k |-> "none", n |-> 0]
Cause(k, n) == [k |-> k, n |-> n]

\* dispatchScriptEventRaw: hand one frame to the transport
dispatchRaw(st, r, frame, cause) ==
    [st EXCEPT !.transport = Append(@, frame),
               !.sent = Append(@, [id |-> frame.id, message |-> frame.message,
                                   by |-> r, cause |-> cause])]

\* sendStreamInternal: start the job that emits the chunks one at a time;
\* inv is the invoke whose timer the job arms when it ends (0: none)
sendStreamInternal(st, r, flag, event, content, streamId, cause, inv) ==
    [st EXCEPT !.jobs = Append(@, [router |-> r,
                                   frames |-> streamFrames(flag, event, content, streamId),
                                   cause |-> cause, inv |-> inv])]

\* Router.sendAuto
sendAuto(st, r, event, payload, cause) ==
    LET serialized == stringify(payload)
        streamId == generateStreamUid(Uid(r), st.streamUidsGenerated[r])
    IN  IF Len(serialized) > MAX_MESSAGE_LENGTH
        THEN sendStreamInternal(
                 [st EXCEPT !.streamUidsGenerated[r] = @ + 1],
                 r, F_SEND_STREAM, event, serialized, streamId, cause, 0)
        ELSE IF dispatchThrows(event, serialized, FALSE)
        THEN [st EXCEPT !.uncaught = @ \cup {"sendAuto rejected"}]
        ELSE dispatchRaw(st, r, Frame(event, <<F_SEND>> \o serialized), cause)

(***************************************************************************)
(* Inbound dispatch.                                                       *)
(***************************************************************************)
\* the listener installed by invokeInternal / invokeStreamInternal for
\* invoke i, called with the parsed payload
responseCallback(st, i, payload) ==
    LET inv == st.invokes[i]
        new == IF payload.t = "Failure" /\ inv.throwFailures
               THEN Rejected(payload)
               ELSE Resolved(payload)
    IN  [st EXCEPT !.listeners[inv.router] = Delete(@, inv.rid),
                   !.invokes[i].timer = IF @ = "armed" THEN "cleared" ELSE @,
                   !.invokes[i].outcome = settle(@, new)]

\* what invokeListener sends back for what the listener returned or threw
responseFor(result) ==
    IF result = Thrown THEN Null
    ELSE IF result.t = "Failure" THEN Envelope(result.s)
    ELSE result

CallRecord(r, id, via, responseEvent, rawPayload, payload, state) ==
    [router |-> r, id |-> id, via |-> via, re |-> responseEvent, raw |-> rawPayload,
     payload |-> payload, state |-> state]

\* Router.invokeListener, up to the point where the listener suspends
invokeListener(st, r, id, responseEvent, rawPayload) ==
    LET listener == st.listeners[r][id]
        payload == parseRawPayload(rawPayload)
        k == Len(st.calls) + 1
        logged(state) ==
            [st EXCEPT !.calls = Append(@, CallRecord(r, id, "invoke", responseEvent,
                                                      rawPayload, payload, state))]
    IN  IF payload = SyntaxError
        THEN [logged("parse failed") EXCEPT !.uncaught = @ \cup {"invokeListener rejected"}]
        ELSE IF listener.kind = "response"
        THEN sendAuto(responseCallback(logged("done"), listener.inv, payload),
                      r, responseEvent, Null, Cause("call", k))
        ELSE IF listener.susp
        THEN [logged("suspended") EXCEPT
                 !.tasks = Append(@, [router |-> r, via |-> "invoke", re |-> responseEvent,
                                      ret |-> resultOf(listener, payload), call |-> k])]
        ELSE sendAuto(logged("done"), r, responseEvent,
                      responseFor(resultOf(listener, payload)), Cause("call", k))

\* Router.callListener, up to the point where the listener suspends
callListener(st, r, id, rawPayload) ==
    LET listener == st.listeners[r][id]
        payload == parseRawPayload(rawPayload)
        k == Len(st.calls) + 1
        logged(state) ==
            [st EXCEPT !.calls = Append(@, CallRecord(r, id, "send", <<>>, rawPayload,
                                                      payload, state))]
    IN  IF payload = SyntaxError
        THEN [logged("parse failed") EXCEPT !.uncaught = @ \cup {"callListener rejected"}]
        ELSE IF listener.kind = "response"
        THEN responseCallback(logged("done"), listener.inv, payload)
        ELSE IF listener.susp
        THEN [logged("suspended") EXCEPT
                 !.tasks = Append(@, [router |-> r, via |-> "send", re |-> <<>>,
                                      ret |-> resultOf(listener, payload), call |-> k])]
        ELSE logged("done")

\* Router.routeEvent, stream branch
routeStream(st, r, id, ipcTypeFlag, message) ==
    LET first == splitFirst(message)
        streamId == first[1]
        afterId == first[2]
        second == splitFirst(afterId)
        isEnd == second[1] = <<"t">>
        content == second[2]
        cachedContent == IF Has(st.pendingStreams[r], streamId)
                         THEN st.pendingStreams[r][streamId]
                         ELSE <<>>
        fullContent == Concat(cachedContent, content)
        dropped == [st EXCEPT !.pendingStreams[r] = Delete(@, streamId)]
        whole == splitFirst(fullContent)
    IN  IF afterId = Undefined
        THEN [st EXCEPT !.uncaught = @ \cup {"routeEvent threw"}]
        ELSE IF ~isEnd
        THEN [st EXCEPT !.pendingStreams[r] = Put(@, streamId, fullContent)]
        ELSE IF ipcTypeFlag = F_INVOKE_STREAM
        THEN invokeListener(dropped, r, id, whole[1], whole[2])
        ELSE callListener(dropped, r, id, fullContent)

\* mutant: a chunk that is not the last is buffered before the listener is
\* looked up
routeEventBuffersFirst(st, r, id, rawMsg) ==
    LET ipcTypeFlag == IF Len(rawMsg) > 0 THEN rawMsg[1] ELSE ""
        message == SliceFrom(rawMsg, 1)
        parts == splitFirst(message)
        afterId == parts[2]
    IN  IF ~Has(st.listeners[r], id)
        THEN IF /\ ipcTypeFlag \in {F_INVOKE_STREAM, F_SEND_STREAM}
                /\ afterId # Undefined
                /\ splitFirst(afterId)[1] # <<"t">>
             THEN [st EXCEPT !.pendingStreams[r] =
                                 Put(@, parts[1], splitFirst(afterId)[2])]
             ELSE st
        ELSE IF ipcTypeFlag = F_SEND THEN callListener(st, r, id, message)
        ELSE IF ipcTypeFlag = F_INVOKE THEN invokeListener(st, r, id, parts[1], parts[2])
        ELSE IF ipcTypeFlag \in {F_INVOKE_STREAM, F_SEND_STREAM}
        THEN routeStream(st, r, id, ipcTypeFlag, message)
        ELSE st

\* Router.routeEvent
routeEvent(st, r, id, rawMsg) ==
    LET ipcTypeFlag == IF Len(rawMsg) > 0 THEN rawMsg[1] ELSE ""
        message == SliceFrom(rawMsg, 1)
        parts == splitFirst(message)
    IN  IF ~Has(st.listeners[r], id) THEN st
        ELSE IF ipcTypeFlag = F_SEND THEN callListener(st, r, id, message)
        ELSE IF ipcTypeFlag = F_INVOKE THEN invokeListener(st, r, id, parts[1], parts[2])
        ELSE IF ipcTypeFlag \in {F_INVOKE_STREAM, F_SEND_STREAM}
        THEN routeStream(st, r, id, ipcTypeFlag, message)
        ELSE st

\* the transport's delivery of one frame: onScriptEventRecieved of every
\* subscribed router, in subscription order
RECURSIVE deliverTo(_, _, _)
deliverTo(st, n, frame) ==
    IF n > Len(st.subscribers) THEN st
    ELSE deliverTo(routeEvent(st, st.subscribers[n], frame.id, frame.message), n + 1, frame)

(***************************************************************************)
(* The public operations.                                                  *)
(***************************************************************************)
InvokeRecord(r, rid, event, payload, stream, throwFailures, timer, left) ==
    [router |-> r, rid |-> rid, event |-> event, payload |-> payload, stream |-> stream,
     throwFailures |-> throwFailures, timer |-> timer, left |-> left, waited |-> 0,
     outcome |-> Pending,
     \* history: the method called and its force option, set by invokeCall
     api |-> "", force |-> FALSE]

\* Router.invokeInternal: arm the timer, install the response listener, send
invokeInternal(st, r, event, payload, responseListenerId, throwFailures, force) ==
    LET i == Len(st.invokes) + 1
        st1 == [st EXCEPT
                   !.invokes = Append(@, InvokeRecord(r, responseListenerId, event, payload,
                                                      FALSE,
                                                      throwFailures, "armed", TIMEOUT_TICKS)),
                   !.listeners[r] = Put(@, responseListenerId, ResponseListener(i))]
        message == responseListenerId \o <<SP>> \o payload
    IN  IF dispatchThrows(event, message, force)
        THEN [st1 EXCEPT !.invokes[i].outcome = Rejected(OversizeError)]
        ELSE dispatchRaw(st1, r, Frame(event, <<F_INVOKE>> \o message), Cause("invoke", i))

\* mutant: the timer is armed when the call is made, as in invokeInternal
invokeStreamInternalArmsAtCall(st, r, event, payload, responseListenerId, streamId, throwFailures) ==
    LET i == Len(st.invokes) + 1
        st1 == [st EXCEPT
                   !.invokes = Append(@, InvokeRecord(r, responseListenerId, event, payload,
                                                      TRUE,
                                                      throwFailures, "armed", TIMEOUT_TICKS)),
                   !.listeners[r] = Put(@, responseListenerId, ResponseListener(i))]
    IN  sendStreamInternal(st1, r, F_INVOKE_STREAM, event,
                           responseListenerId \o <<SP>> \o payload, streamId,
                           Cause("invoke", i), i)

\* Router.invokeStreamInternal: install the response listener, start the
\* stream; the timer is armed when the stream's job ends
invokeStreamInternal(st, r, event, payload, responseListenerId, streamId, throwFailures) ==
    LET i == Len(st.invokes) + 1
        st1 == [st EXCEPT
                   !.invokes = Append(@, InvokeRecord(r, responseListenerId, event, payload,
                                                      TRUE,
                                                      throwFailures, "unset", 0)),
                   !.listeners[r] = Put(@, responseListenerId, ResponseListener(i))]
    IN  sendStreamInternal(st1, r, F_INVOKE_STREAM, event,
                           responseListenerId \o <<SP>> \o payload, streamId,
                           Cause("invoke", i), i)

\* mutant: invokeAuto compares the length of the serialized payload alone
invokeCallPayloadOnly(st, r, api, event, value, throwFailures, force) ==
    LET serialized == stringify(value)
        responseListenerId == generateListenerUid(Uid(r), st.listenerUidsGenerated[r])
        st1 == [st EXCEPT !.listenerUidsGenerated[r] = @ + 1]
        streamId == generateStreamUid(Uid(r), st.streamUidsGenerated[r])
        st2 == [st1 EXCEPT !.streamUidsGenerated[r] = @ + 1]
        streams == \/ api = "invokeStream"
                   \/ api = "invokeAuto" /\ Len(serialized) > MAX_MESSAGE_LENGTH
        i == Len(st.invokes) + 1
        called == IF streams
                  THEN invokeStreamInternal(st2, r, event, serialized, responseListenerId,
                                            streamId, throwFailures)
                  ELSE invokeInternal(st1, r, event, serialized, responseListenerId,
                                      throwFailures, force)
    IN  [called EXCEPT !.invokes[i].api = api, !.invokes[i].force = force]

\* Router.invoke, Router.invokeStream, Router.invokeAuto
invokeCall(st, r, api, event, value, throwFailures, force) ==
    LET serialized == stringify(value)
        responseListenerId == generateListenerUid(Uid(r), st.listenerUidsGenerated[r])
        st1 == [st EXCEPT !.listenerUidsGenerated[r] = @ + 1]
        streamId == generateStreamUid(Uid(r), st.streamUidsGenerated[r])
        st2 == [st1 EXCEPT !.streamUidsGenerated[r] = @ + 1]
        actualPayloadLength == Len(serialized) + Len(responseListenerId) + 1
        streams == \/ api = "invokeStream"
                   \/ api = "invokeAuto" /\ actualPayloadLength > MAX_MESSAGE_LENGTH
        i == Len(st.invokes) + 1
        called == IF streams
                  THEN invokeStreamInternal(st2, r, event, serialized, responseListenerId,
                                            streamId, throwFailures)
                  ELSE invokeInternal(st1, r, event, serialized, responseListenerId,
                                      throwFailures, force)
    IN  [called EXCEPT !.invokes[i].api = api, !.invokes[i].force = force]

\* Router.send, Router.sendStream, Router.sendAuto
sendCall(st, r, api, event, value, force) ==
    LET serialized == stringify(value)
        n == Len(st.sends) + 1
        threw == api = "send" /\ dispatchThrows(event, serialized, force)
        st1 == [st EXCEPT !.sends = Append(@, [router |-> r, api |-> api,
                                               serialized |-> serialized, threw |-> threw,
                                               force |-> force])]
        streamId == generateStreamUid(Uid(r), st.streamUidsGenerated[r])
        st2 == [st1 EXCEPT !.streamUidsGenerated[r] = @ + 1]
    IN  IF api = "send"
        THEN IF threw THEN st1
             ELSE dispatchRaw(st1, r, Frame(event, <<F_SEND>> \o serialized), Cause("send", n))
        ELSE IF api = "sendStream"
        THEN sendStreamInternal(st2, r, F_SEND_STREAM, event, serialized, streamId,
                                Cause("send", n), 0)
        ELSE sendAuto(st1, r, event, value, Cause("send", n))

\* event.split(":")[1]: the text between the first colon and the next
afterNamespace(event) ==
    LET colons == {i \in 1..Len(event) : event[i] = ":"}
        first == Min(colons)
        later == {i \in colons : i > first}
    IN  SubSeq(event, first + 1, IF later = {} THEN Len(event) ELSE Min(later) - 1)

\* mutant: an id that is already registered is accepted
registerThrowsNoDuplicateCheck(map, event) ==
    \/ \A i \in 1..Len(event) : event[i] # ":"
    \/ LET local == afterNamespace(event) IN Len(local) > 0 /\ local[1] = "_"

\* Router.registerListener: TRUE when it throws
registerThrows(map, event) ==
    \/ Has(map, event)
    \/ \A i \in 1..Len(event) : event[i] # ":"
    \/ LET local == afterNamespace(event) IN Len(local) > 0 /\ local[1] = "_"

\* the n-th call of registerListener / removeListener, its arguments, whether
\* it threw and what it returned
Ret(n, op, r, event, callback, threw, value) ==
    [n |-> n, op |-> op, router |-> r, event |-> event, callback |-> callback,
     threw |-> threw, value |-> value]

registerListener(r, event, callback) ==
    Becomes([State EXCEPT
        !.listeners[r] = IF registerThrows(@, event) THEN @ ELSE Put(@, event, callback),
        !.ret = Ret(ret.n + 1, "registerListener", r, event, callback,
                    registerThrows(listeners[r], event), FALSE)])

\* mutant: the returned flag is read after the entry is deleted
removeListenerStale(r, event) ==
    Becomes([State EXCEPT
        !.listeners[r] = Delete(@, event),
        !.ret = Ret(ret.n + 1, "removeListener", r, event, AppListener(Null, FALSE), FALSE,
                    Has(Delete(listeners[r], event), event))])

\* Router.removeListener
removeListener(r, event) ==
    Becomes([State EXCEPT
        !.listeners[r] = Delete(@, event),
        !.ret = Ret(ret.n + 1, "removeListener", r, event, AppListener(Null, FALSE), FALSE,
                    Has(listeners[r], event))])

\* MAX_ROUTER_UID_LENGTH is declared in constants.js; the constructor uses it
\* only in the comparison below, and a small value stands for it here
MAX_ROUTER_UID_LENGTH == 4

\* Router.constructor: TRUE when it throws (!uid is the empty string)
constructorThrows(u) == u = <<>> \/ Len(u) > MAX_ROUTER_UID_LENGTH

\* new Router(u), kept in r when the constructor returns; ret.value: the
\* constructor subscribed onScriptEventRecieved
constructor(st, r, u) ==
    IF constructorThrows(u)
    THEN [st EXCEPT !.ret = Ret(st.ret.n + 1, "constructor", r, u,
                                AppListener(Null, FALSE), TRUE, FALSE)]
    ELSE [st EXCEPT !.uid[r] = u,
                    !.isValid[r] = TRUE,
                    !.subscribers = Append(@, r),
                    !.ret = Ret(st.ret.n + 1, "constructor", r, u,
                                AppListener(Null, FALSE), FALSE, TRUE)]

Construct(r, u) ==
    /\ uid[r] = <<>>
    /\ Becomes(constructor(State, r, u))

\* mutant: destroy also cancels the timers and drops the response listeners
\* of the router's invokes
destroyCancelsInvokes(st, r) ==
    [st EXCEPT
        !.subscribers = SelectSeq(@, LAMBDA x : x # r),
        !.isValid[r] = FALSE,
        !.listeners[r] = [id \in {x \in DOMAIN @ : @[x].kind # "response"} |-> @[id]],
        !.invokes = [i \in 1..Len(@) |->
                        IF @[i].router = r /\ @[i].timer = "armed"
                        THEN [@[i] EXCEPT !.timer = "cleared"]
                        ELSE @[i]]]

\* mutant: destroy marks the router invalid and leaves it subscribed
destroyKeepsSubscription(st, r) == [st EXCEPT !.isValid[r] = FALSE]

\* Router.destroy: unsubscribe, mark invalid
destroy(st, r) ==
    [st EXCEPT !.subscribers = SelectSeq(@, LAMBDA x : x # r),
               !.isValid[r] = FALSE]

\* ret.value of a destroy call: an invoke of the router was pending
Destroy(r) ==
    Becomes([destroy(State, r) EXCEPT
        !.ret = Ret(ret.n + 1, "destroy", r, <<>>, AppListener(Null, FALSE), FALSE,
                    \E i \in 1..Len(invokes) :
                        invokes[i].router = r /\ invokes[i].outcome = Pending)])

Invoke(r, api, event, value, throwFailures, force) ==
    Becomes(invokeCall(State, r, api, event, value, throwFailures, force))

Send(r, api, event, value, force) ==
    Becomes(sendCall(State, r, api, event, value, force))

(***************************************************************************)
(* The host: delivery of frames, the job runner, suspended listeners, and  *)
(* the tick scheduler.                                                     *)
(***************************************************************************)
RemoveAt(seq, k) == SubSeq(seq, 1, k - 1) \o SubSeq(seq, k + 1, Len(seq))

\* the transport delivers the oldest frame to every subscribed router
Deliver ==
    /\ transport # <<>>
    /\ Becomes(deliverTo([State EXCEPT !.transport = Tail(@)], 1, Head(transport)))

\* a script event that no router dispatched (another script, or the
\* scriptevent command) reaches the transport
ScriptEvent(id, message) ==
    Becomes([State EXCEPT
        !.transport = Append(@, Frame(id, message)),
        !.sent = Append(@, [id |-> id, message |-> message, by |-> "script",
                            cause |-> NoCause])])

\* a stream's job emits its next chunk and yields
EmitChunk(j) ==
    /\ j \in 1..Len(jobs)
    /\ jobs[j].frames # <<>>
    /\ Becomes(dispatchRaw([State EXCEPT !.jobs[j].frames = Tail(@)],
                           jobs[j].router, Head(jobs[j].frames), jobs[j].cause))

\* the callback of invokeStreamInternal's finally: arm the timer
armTimer(st, i) ==
    [st EXCEPT !.invokes[i].timer = "armed",
               !.invokes[i].left = TIMEOUT_TICKS,
               !.invokes[i].waited = 0]

\* a stream's job is resumed after its last chunk and ends
EndJob(j) ==
    /\ j \in 1..Len(jobs)
    /\ jobs[j].frames = <<>>
    /\ LET st == [State EXCEPT !.jobs = RemoveAt(@, j)]
       IN  Becomes(IF jobs[j].inv # 0 THEN armTimer(st, jobs[j].inv) ELSE st)

\* a suspended listener completes: the rest of invokeListener / callListener
Complete(k) ==
    /\ k \in 1..Len(tasks)
    /\ LET task == tasks[k]
           st == [State EXCEPT !.tasks = RemoveAt(@, k),
                               !.calls[task.call].state = "done"]
       IN  Becomes(IF task.via = "invoke"
                   THEN sendAuto(st, task.router, task.re, responseFor(task.ret),
                                 Cause("call", task.call))
                   ELSE st)

\* mutant: the timer is due one tick early
TimerDueEarly(i) == invokes[i].timer = "armed" /\ invokes[i].left <= 1

TimerDue(i) == invokes[i].timer = "armed" /\ invokes[i].left = 0

\* mutant: the timeout rejects and leaves the response listener registered
timeoutCallbackKeepsListener(st, i) ==
    [st EXCEPT !.invokes[i].timer = "fired",
               !.invokes[i].outcome = settle(@, Rejected(TimeoutError))]

\* the callback handed to system.runTimeout
timeoutCallback(st, i) ==
    [st EXCEPT !.listeners[st.invokes[i].router] = Delete(@, st.invokes[i].rid),
               !.invokes[i].timer = "fired",
               !.invokes[i].outcome = settle(@, Rejected(TimeoutError))]

TimerFire(i) ==
    /\ i \in 1..Len(invokes)
    /\ TimerDue(i)
    /\ Becomes(timeoutCallback(State, i))

\* one game tick passes: every armed timer is one tick closer
tick(inv) ==
    IF inv.timer = "armed"
    THEN [inv EXCEPT !.left = @ - 1, !.waited = @ + 1]
    ELSE inv

Tick ==
    /\ \E i \in 1..Len(invokes) : invokes[i].timer = "armed"
    /\ \A i \in 1..Len(invokes) : ~TimerDue(i)
    /\ invokes' = [i \in 1..Len(invokes) |-> tick(invokes[i])]
    /\ UNCHANGED <<uid, subscribers, isValid, listeners, pendingStreams, listenerUidsGenerated,
                   streamUidsGenerated, transport, jobs, tasks, sent, calls, sends,
                   uncaught, ret>>

(***************************************************************************)
(* Inputs of the specifications.                                           *)
(***************************************************************************)
EventE == <<"b", ":", "e">>

SmallValue == StrV(<<"v">>)
OtherValue == StrV(<<"w">>)
LineValue == StrV(<<"v", LS, "w">>)
\* serialized, one character longer than MAX_MESSAGE_LENGTH
BigValue == StrV(Rep("x", MAX_MESSAGE_LENGTH - 1))
BigLineValue == StrV(<<"x", LS>> \o Rep("x", MAX_MESSAGE_LENGTH - 3))

\* both routers constructed, a with uid "a" and then b with uid "b"
InitRouters ==
    /\ uid = [r \in Routers |-> <<r>>]
    /\ subscribers = <<"a", "b">>
    /\ isValid = [r \in Routers |-> TRUE]
    /\ pendingStreams = [r \in Routers |-> EmptyMap]
    /\ listenerUidsGenerated = [r \in Routers |-> 0]
    /\ streamUidsGenerated = [r \in Routers |-> 0]
    /\ transport = <<>>
    /\ jobs = <<>>
    /\ invokes = <<>>
    /\ tasks = <<>>
    /\ sent = <<>>
    /\ calls = <<>>
    /\ sends = <<>>
    /\ uncaught = {}
    /\ ret = Ret(0, "none", "a", <<>>, AppListener(Null, FALSE), FALSE, FALSE)

\* the listeners after each router in hs registered hs[r] for EventE
Registered(hs) ==
    [r \in Routers |-> IF r \in DOMAIN hs THEN Put(EmptyMap, EventE, hs[r]) ELSE EmptyMap]

\* the host's steps when nothing is streamed
HostPlain ==
    \/ Deliver
    \/ \E k \in 1..Len(tasks) : Complete(k)
    \/ \E i \in 1..Len(invokes) : TimerFire(i)
    \/ Tick

Host ==
    \/ HostPlain
    \/ \E j \in 1..Len(jobs) : EmitChunk(j)
    \/ \E j \in 1..Len(jobs) : EndJob(j)

(***************************************************************************)
(* Spec: router a invokes EventE.  Either router b alone answers, after    *)
(* suspending, or router b answers at once and router a, which listens     *)
(* too, after suspending: the answers race with the timer.                 *)
(***************************************************************************)
MaxInvokes == 1

Init ==
    /\ InitRouters
    /\ \E hs \in {("b" :> AppListener(SmallValue, TRUE)),
                  ("a" :> AppListener(OtherValue, TRUE)) @@ ("b" :> AppListener(SmallValue, FALSE))} :
           listeners = Registered(hs)

Next ==
    \/ \E api \in {"invoke", "invokeStream", "invokeAuto"} :
           /\ Len(invokes) < MaxInvokes
           /\ Invoke("a", api, EventE, SmallValue, FALSE, FALSE)
    \/ Host

Spec == Init /\ [][Next]_vars

(***************************************************************************)
(* SpecResult: router a invokes EventE, which router b answers with a      *)
(* value or a Failure, at once or after suspending.  The caller awaits one *)
(* invoke before it makes the next.                                        *)
(***************************************************************************)
ResultHandlers ==
    {AppListener(x, susp) :
        x \in {SmallValue, BigValue, BigLineValue, Failure(<<"m">>)}, susp \in BOOLEAN}

InitResult ==
    /\ InitRouters
    /\ \E h \in ResultHandlers : listeners = Registered("b" :> h)

NextResult ==
    \/ \E api \in {"invoke", "invokeAuto"}, throwFailures \in BOOLEAN :
           /\ Len(invokes) < MaxInvokes
           /\ \A i \in 1..Len(invokes) : invokes[i].outcome # Pending
           /\ Invoke("a", api, EventE, SmallValue, throwFailures, FALSE)
    \/ Host

SpecResult == InitResult /\ [][NextResult]_vars

(***************************************************************************)
(* SpecPair: router a has several invokes of EventE outstanding at once;   *)
(* the n-th carries the payload n, and router b answers each with its      *)
(* payload after suspending, so the answers come back in any order.        *)
(***************************************************************************)
MaxPairInvokes == 2

NthValue(n) == StrV(toString36(n))

InitPair ==
    /\ InitRouters
    /\ listeners = Registered("b" :> AppListener(Echo, TRUE))

NextPair ==
    \/ /\ Len(invokes) < MaxPairInvokes
       /\ Invoke("a", "invoke", EventE, NthValue(Len(invokes)), FALSE, FALSE)
    \/ HostPlain

SpecPair == InitPair /\ [][NextPair]_vars

(***************************************************************************)
(* SpecFrames: router a sends Invoke frames to EventE, two of them at      *)
(* once, with payloads that may hold a line separator; router b answers    *)
(* with a value, a Failure or by throwing, at once or after suspending.    *)
(***************************************************************************)
MaxFrames == 2

FrameHandlers ==
    {AppListener(x, susp) : x \in {SmallValue, Failure(<<"m">>), Thrown}, susp \in BOOLEAN}

InitFrames ==
    /\ InitRouters
    /\ \E h \in FrameHandlers : listeners = Registered("b" :> h)

NextFrames ==
    \/ \E v \in {SmallValue, LineValue} :
           /\ Len(invokes) < MaxFrames
           /\ Invoke("a", "invoke", EventE, v, FALSE, FALSE)
    \/ HostPlain

SpecFrames == InitFrames /\ [][NextFrames]_vars

(***************************************************************************)
(* SpecRegistry: registerListener and removeListener calls, in any order,  *)
(* with ids that are well formed, lack the colon, or have a local part     *)
(* that starts with the underscore.                                        *)
(***************************************************************************)
MaxCalls == 4

RegistryIds ==
    {<<"n", ":", "e">>, <<"n", ":", "f", ":", "_", "g">>, <<"n", ":">>,
     <<"e">>, <<"_", "e">>, <<"n", ":", "_", "e">>, <<"a", ":", "_", "_", "0">>}
RegistryHandlers == {AppListener(SmallValue, FALSE), AppListener(OtherValue, FALSE)}

InitRegistry ==
    /\ InitRouters
    /\ listeners = [r \in Routers |-> EmptyMap]

NextRegistry ==
    \/ \E r \in Routers, e \in RegistryIds, h \in RegistryHandlers :
           /\ ret.n < MaxCalls
           /\ registerListener(r, e, h)
    \/ \E r \in Routers, e \in RegistryIds :
           /\ ret.n < MaxCalls
           /\ removeListener(r, e)

SpecRegistry == InitRegistry /\ [][NextRegistry]_vars

(***************************************************************************)
(* SpecStream: router a sends payloads whose serialized lengths lie on     *)
(* both sides of the message limit and of the fragment size, one of them   *)
(* with a U+2028 in it; router b listens.  Streams are emitted one chunk   *)
(* at a time and may interleave.  Each call sends a shorter payload than   *)
(* the calls before it.                                                    *)
(***************************************************************************)
MaxSends == 2

\* a string whose serialized form has n characters
StrOfLen(n) == StrV(Rep("x", n - 2))

\* the calls made: <<api, payload>>
StreamInputs ==
    {<<"send", SmallValue>>,
     <<"send", StrOfLen(MAX_MESSAGE_LENGTH)>>,
     <<"sendAuto", StrOfLen(MAX_MESSAGE_LENGTH - 1)>>,
     <<"sendAuto", BigValue>>,
     <<"sendAuto", StrOfLen(2 * maxMessageLengthWithPadding + 1)>>,
     <<"sendStream", StrOfLen(maxMessageLengthWithPadding + 1)>>,
     <<"sendStream", BigLineValue>>}

InitStream ==
    /\ InitRouters
    /\ listeners = Registered("b" :> AppListener(Echo, FALSE))

NextStream ==
    \/ /\ Len(sends) < MaxSends
       /\ \E in \in StreamInputs :
              /\ \A n \in 1..Len(sends) : Len(sends[n].serialized) > Len(stringify(in[2]))
              /\ Send("a", in[1], EventE, in[2], FALSE)
    \/ Deliver
    \/ \E j \in 1..Len(jobs) : EmitChunk(j)
    \/ \E j \in 1..Len(jobs) : EndJob(j)

SpecStream == InitStream /\ [][NextStream]_vars

(***************************************************************************)
(* SpecOversize: router a calls invoke and send with payloads that make    *)
(* the message one character longer than the limit, with and without the   *)
(* force option; router b answers after suspending.  The caller awaits one *)
(* invoke before it makes the next call.                                   *)
(***************************************************************************)
MaxOversizeCalls == 2

\* the correlation id "a:__0" and the space take six characters of the message
OversizeInputs ==
    {<<"invoke", StrOfLen(MAX_MESSAGE_LENGTH - 5)>>,
     <<"send", BigValue>>}

InitOversize ==
    /\ InitRouters
    /\ listeners = Registered("b" :> AppListener(SmallValue, TRUE))

OversizeCallable ==
    /\ Len(invokes) + Len(sends) < MaxOversizeCalls
    /\ \A i \in 1..Len(invokes) : invokes[i].outcome # Pending

NextOversize ==
    \/ /\ OversizeCallable
       /\ \E in \in OversizeInputs, force \in BOOLEAN :
              /\ in[1] = "invoke"
              /\ Invoke("a", "invoke", EventE, in[2], FALSE, force)
    \/ /\ OversizeCallable
       /\ \E in \in OversizeInputs, force \in BOOLEAN :
              /\ in[1] = "send"
              /\ Send("a", "send", EventE, in[2], force)
    \/ HostPlain

SpecOversize == InitOversize /\ [][NextOversize]_vars

(***************************************************************************)
(* SpecDestroy: router a invokes EventE, streamed or not, router b answers *)
(* after suspending, and either router is destroyed at any moment, also a  *)
(* second time.  The caller awaits one invoke before it makes the next.    *)
(***************************************************************************)
MaxDestroyInvokes == 1
MaxDestroys == 2

InitDestroy ==
    /\ InitRouters
    /\ listeners = Registered("b" :> AppListener(SmallValue, TRUE))

NextDestroy ==
    \/ /\ Len(invokes) < MaxDestroyInvokes
       /\ \A i \in 1..Len(invokes) : invokes[i].outcome # Pending
       /\ \E api \in {"invoke", "invokeStream"} :
              Invoke("a", api, EventE, SmallValue, FALSE, FALSE)
    \/ /\ ret.n < MaxDestroys
       /\ \E r \in Routers : Destroy(r)
    \/ Host

SpecDestroy == InitDestroy /\ [][NextDestroy]_vars

(***************************************************************************)
(* SpecConstruct: no router exists at first.  Routers are constructed with *)
(* uids of no character, one character, and of lengths around              *)
(* MAX_ROUTER_UID_LENGTH; a constructor that threw can be tried again.  A   *)
(* constructed router registers a listener for EventE or sends to EventE,  *)
(* and the transport delivers to the subscribed routers.                   *)
(***************************************************************************)
MaxConstructs == 3
MaxConstructSends == 1

UidLengths ==
    {0, 1, MAX_ROUTER_UID_LENGTH - 1, MAX_ROUTER_UID_LENGTH, MAX_ROUTER_UID_LENGTH + 1}

InitConstruct ==
    /\ uid = [r \in Routers |-> <<>>]
    /\ subscribers = <<>>
    /\ isValid = [r \in Routers |-> TRUE]
    /\ listeners = [r \in Routers |-> EmptyMap]
    /\ pendingStreams = [r \in Routers |-> EmptyMap]
    /\ listenerUidsGenerated = [r \in Routers |-> 0]
    /\ streamUidsGenerated = [r \in Routers |-> 0]
    /\ transport = <<>>
    /\ jobs = <<>>
    /\ invokes = <<>>
    /\ tasks = <<>>
    /\ sent = <<>>
    /\ calls = <<>>
    /\ sends = <<>>
    /\ uncaught = {}
    /\ ret = Ret(0, "none", "a", <<>>, AppListener(Null, FALSE), FALSE, FALSE)

NextConstruct ==
    \/ \E r \in Routers, n \in UidLengths :
           /\ ret.n < MaxConstructs
           /\ Construct(r, Rep(r, n))
    \/ \E r \in Routers :
           /\ uid[r] # <<>>
           /\ ret.n < MaxConstructs
           /\ registerListener(r, EventE, AppListener(SmallValue, FALSE))
    \/ \E r \in Routers :
           /\ uid[r] # <<>>
           /\ Len(sends) < MaxConstructSends
           /\ Send(r, "send", EventE, SmallValue, FALSE)
    \/ Deliver

SpecConstruct == InitConstruct /\ [][NextConstruct]_vars

(***************************************************************************)
(* SpecEmit: router a makes a streamed invoke of EventE whose payload      *)
(* takes several chunks, then plain invokes, whose timers run while the    *)
(* chunks are emitted; a plain invoke is awaited before the next is made.  *)
(* No router listens on EventE, so every invoke runs into its timeout.     *)
(***************************************************************************)
MaxEmitInvokes == 2

InitEmit ==
    /\ InitRouters
    /\ listeners = [r \in Routers |-> EmptyMap]

NextEmit ==
    \/ \E api \in {"invokeStream", "invokeAuto"} :
           /\ invokes = <<>>
           /\ Invoke("a", api, EventE, BigValue, FALSE, FALSE)
    \/ /\ invokes # <<>>
       /\ Len(invokes) < MaxEmitInvokes
       /\ \A i \in 2..Len(invokes) : invokes[i].outcome # Pending
       /\ Invoke("a", "invoke", EventE, SmallValue, FALSE, FALSE)
    \/ Deliver
    \/ \E j \in 1..Len(jobs) : EmitChunk(j)
    \/ \E j \in 1..Len(jobs) : EndJob(j)
    \/ \E i \in 1..Len(invokes) : TimerFire(i)
    \/ Tick

SpecEmit == InitEmit /\ [][NextEmit]_vars

(***************************************************************************)
(* SpecAuto: router a calls invokeAuto with a small payload, with the      *)
(* longest payload that fits one frame together with the correlation id,   *)
(* and with a payload one character longer.  Router b answers after        *)
(* suspending; the caller makes the next call when the one before is       *)
(* settled and nothing of it is left in flight or on a timer.              *)
(***************************************************************************)
MaxAutoInvokes == 1

\* the length of the correlation ids that router a mints here
AutoIdLength == Len(generateListenerUid(<<"a">>, 0))

AutoValues ==
    {SmallValue,
     StrOfLen(MAX_MESSAGE_LENGTH - AutoIdLength - 1),
     StrOfLen(MAX_MESSAGE_LENGTH - AutoIdLength)}

InitAuto ==
    /\ InitRouters
    /\ listeners = Registered("b" :> AppListener(SmallValue, TRUE))

NextAuto ==
    \/ \E value \in AutoValues :
           /\ Len(invokes) < MaxAutoInvokes
           /\ \A i \in 1..Len(invokes) :
                  invokes[i].outcome # Pending /\ invokes[i].timer # "armed"
           /\ jobs = <<>> /\ transport = <<>> /\ tasks = <<>>
           /\ Invoke("a", "invokeAuto", EventE, value, FALSE, FALSE)
    \/ Host

SpecAuto == InitAuto /\ [][NextAuto]_vars

(***************************************************************************)
(* SpecInbound: script events that no router dispatched are delivered to   *)
(* routers a and b: well-formed Send, Invoke and chunk frames, a frame     *)
(* with an unknown type flag, and chunks that lack fields.  Router b has a *)
(* listener for EventE, which returns after suspending; nobody has one for *)
(* NoListenerId or for the response id that the Invoke frame names.        *)
(***************************************************************************)
MaxScriptEvents == 2

NoListenerId == <<"b", ":", "n">>

InboundMessages ==
    {<<F_SEND, QUOTE, "v", QUOTE>>,
     <<F_INVOKE, "r", ":", "x", SP, QUOTE, "v", QUOTE>>,
     <<F_SEND_STREAM, "x", "0", SP, "f", SP, QUOTE, "v">>,
     <<F_SEND_STREAM, "x", "0", SP, "t", SP, QUOTE>>,
     <<"X", QUOTE, "v", QUOTE>>,
     <<F_SEND_STREAM, "x", "0">>,
     <<F_SEND_STREAM, "x", "0", SP, "f">>,
     <<F_INVOKE_STREAM, "x", "0", SP, "t">>}

InitInbound ==
    /\ InitRouters
    /\ listeners = Registered("b" :> AppListener(SmallValue, TRUE))

NextInbound ==
    \/ \E id \in {EventE, NoListenerId}, message \in InboundMessages :
           /\ Len(SelectSeq(sent, LAMBDA x : x.by = "script")) < MaxScriptEvents
           /\ ScriptEvent(id, message)
    \/ Deliver
    \/ \E k \in 1..Len(tasks) : Complete(k)

SpecInbound == InitInbound /\ [][NextInbound]_vars

(***************************************************************************)
(* SpecSendOnly: router a sends and streams to EventE a payload without    *)
(* and a payload with a line separator; router b's listener returns a      *)
(* value or a Failure or throws, at once or after suspending.              *)
(***************************************************************************)
MaxSendOnlyCalls == 2

SendOnlyInputs ==
    {<<api, value>> : api \in {"send", "sendStream"}, value \in {SmallValue, LineValue}}

InitSendOnly ==
    /\ InitRouters
    /\ \E h \in FrameHandlers : listeners = Registered("b" :> h)

NextSendOnly ==
    \/ \E in \in SendOnlyInputs :
           /\ Len(sends) < MaxSendOnlyCalls
           /\ Send("a", in[1], EventE, in[2], FALSE)
    \/ Deliver
    \/ \E k \in 1..Len(tasks) : Complete(k)
    \/ \E j \in 1..Len(jobs) : EmitChunk(j)
    \/ \E j \in 1..Len(jobs) : EndJob(j)

SpecSendOnly == InitSendOnly /\ [][NextSendOnly]_vars

(***************************************************************************)
(* SpecReserved: router a was constructed with a uid without or with a     *)
(* colon in it.  It registers listeners under ids that have the form of    *)
(* its correlation ids, or under an ordinary id, and invokes EventE, which *)
(* router b answers after suspending.                                      *)
(***************************************************************************)
MaxReservedCalls == 1
MaxReservedInvokes == 1

ReservedUids == {<<"a">>, <<"n", ":", "x">>}

ReservedIds ==
    {generateListenerUid(u, 0) : u \in ReservedUids} \cup {<<"n", ":", "e">>}

InitReserved ==
    /\ \E u \in ReservedUids : uid = [r \in Routers |-> IF r = "a" THEN u ELSE <<r>>]
    /\ \A r \in Routers : ~constructorThrows(uid[r])
    /\ subscribers = <<"a", "b">>
    /\ isValid = [r \in Routers |-> TRUE]
    /\ listeners = Registered("b" :> AppListener(SmallValue, TRUE))
    /\ pendingStreams = [r \in Routers |-> EmptyMap]
    /\ listenerUidsGenerated = [r \in Routers |-> 0]
    /\ streamUidsGenerated = [r \in Routers |-> 0]
    /\ transport = <<>>
    /\ jobs = <<>>
    /\ invokes = <<>>
    /\ tasks = <<>>
    /\ sent = <<>>
    /\ calls = <<>>
    /\ sends = <<>>
    /\ uncaught = {}
    /\ ret = Ret(0, "none", "a", <<>>, AppListener(Null, FALSE), FALSE, FALSE)

NextReserved ==
    \/ \E e \in ReservedIds :
           /\ ret.n < MaxReservedCalls
           /\ registerListener("a", e, AppListener(OtherValue, FALSE))
    \/ /\ Len(invokes) < MaxReservedInvokes
       /\ Invoke("a", "invoke", EventE, SmallValue, FALSE, FALSE)
    \/ HostPlain

SpecReserved == InitReserved /\ [][NextReserved]_vars

(***************************************************************************)
(* SpecBuffers: router a streams to EventE a payload that takes two        *)
(* chunks; router b registers and removes its listener for EventE while    *)
(* the chunks are emitted and delivered.                                   *)
(***************************************************************************)
MaxBufferSends == 1
MaxBufferCalls == 2

InitBuffers ==
    /\ InitRouters
    /\ \E hs \in {"b" :> AppListener(Echo, FALSE), <<>>} : listeners = Registered(hs)

NextBuffers ==
    \/ /\ Len(sends) < MaxBufferSends
       /\ Send("a", "sendStream", EventE, StrOfLen(maxMessageLengthWithPadding + 1), FALSE)
    \/ /\ ret.n < MaxBufferCalls
       /\ registerListener("b", EventE, AppListener(Echo, FALSE))
    \/ /\ ret.n < MaxBufferCalls
       /\ removeListener("b", EventE)
    \/ Deliver
    \/ \E j \in 1..Len(jobs) : EmitChunk(j)
    \/ \E j \in 1..Len(jobs) : EndJob(j)

SpecBuffers == InitBuffers /\ [][NextBuffers]_vars

(***************************************************************************)
(* SpecInterleave: router a streams to EventE payloads of two chunks each, *)
(* one of x's and one of y's with a line separator in it; the streams are  *)
(* emitted one chunk at a time and their chunks interleave on the          *)
(* transport.  Router b's listener takes the content.                      *)
(***************************************************************************)
MaxInterleaveSends == 2

InterleaveValues ==
    {StrV(Rep("x", maxMessageLengthWithPadding)),
     StrV(<<"y", LS>> \o Rep("y", maxMessageLengthWithPadding - 2))}

InitInterleave ==
    /\ InitRouters
    /\ listeners = Registered("b" :> AppListener(Echo, FALSE))

NextInterleave ==
    \/ \E value \in InterleaveValues :
           /\ Len(sends) < MaxInterleaveSends
           /\ Send("a", "sendStream", EventE, value, FALSE)
    \/ Deliver
    \/ \E j \in 1..Len(jobs) : EmitChunk(j)
    \/ \E j \in 1..Len(jobs) : EndJob(j)

SpecInterleave == InitInterleave /\ [][NextInterleave]_vars

(***************************************************************************)
(* SpecCollide: routers a and b were constructed with the uids "a" and     *)
(* "a1"; router b listens on EventE.  Router a streams small payloads to   *)
(* EventE, one after the other, until its stream counter has two digits in *)
(* base 36; then a and b each stream a payload of two chunks to EventE,    *)
(* and their chunks interleave on the transport.                           *)
(***************************************************************************)
MaxCollideSends == 37

CollideUids == [r \in Routers |-> IF r = "a" THEN <<"a">> ELSE <<"a", "1">>]

\* the counter value from which toString(36) has two digits
TwoDigits == Len(Digits36)

InitCollide ==
    /\ uid = CollideUids
    /\ \A r \in Routers : ~constructorThrows(uid[r])
    /\ subscribers = <<"a", "b">>
    /\ isValid = [r \in Routers |-> TRUE]
    /\ listeners = Registered("b" :> AppListener(Echo, FALSE))
    /\ pendingStreams = [r \in Routers |-> EmptyMap]
    /\ listenerUidsGenerated = [r \in Routers |-> 0]
    /\ streamUidsGenerated = [r \in Routers |-> 0]
    /\ transport = <<>>
    /\ jobs = <<>>
    /\ invokes = <<>>
    /\ tasks = <<>>
    /\ sent = <<>>
    /\ calls = <<>>
    /\ sends = <<>>
    /\ uncaught = {}
    /\ ret = Ret(0, "none", "a", <<>>, AppListener(Null, FALSE), FALSE, FALSE)

NextCollide ==
    \/ /\ streamUidsGenerated["a"] < TwoDigits
       /\ jobs = <<>> /\ transport = <<>>
       /\ Send("a", "sendStream", EventE, SmallValue, FALSE)
    \/ /\ streamUidsGenerated["a"] >= TwoDigits
       /\ streamUidsGenerated["a"] < MaxCollideSends
       /\ Send("a", "sendStream", EventE, StrV(Rep("x", maxMessageLengthWithPadding)), FALSE)
    \/ /\ streamUidsGenerated["a"] >= TwoDigits
       /\ streamUidsGenerated["b"] < MaxCollideSends - TwoDigits
       /\ Send("b", "sendStream", EventE, StrV(Rep("y", maxMessageLengthWithPadding)), FALSE)
    \/ Deliver
    \/ \E j \in 1..Len(jobs) : EmitChunk(j)
    \/ \E j \in 1..Len(jobs) : EndJob(j)

SpecCollide == InitCollide /\ [][NextCollide]_vars

(***************************************************************************)
(* Properties.                                                             *)
(***************************************************************************)
Invokes == 1..Len(invokes)
HasResponseListener(i) == Has(listeners[invokes[i].router], invokes[i].rid)
TimedOut(i) == invokes[i].outcome = Rejected(TimeoutError)
\* the dispatches of frames addressed to the correlation id of invoke i
CallsTo(log, i) == {k \in 1..Len(log) : log[k].id = invokes[i].rid}
\* the frames sent to the correlation id of invoke i
SentTo(i) == {k \in 1..Len(sent) : sent[k].id = invokes[i].rid}
InFlightTo(i) == {k \in 1..Len(transport) : transport[k].id = invokes[i].rid}

\* C1: a pending invoke is settled at most once, by the timer or by the
\* response, whichever comes first: once settled its result never changes (a
\* late response does not alter a timeout, a late timer does not reject a
\* settled invoke); after the timer has won, no response listener is left
\* under the correlation id and no frame addressed to it is dispatched to any
\* listener.
C1_SettledOnce ==
    /\ [](\A i \in Invokes : TimedOut(i) => ~HasResponseListener(i))
    /\ [][\A i \in Invokes :
            /\ invokes[i].outcome.s # "pending" => invokes'[i].outcome = invokes[i].outcome
            /\ TimedOut(i) => CallsTo(calls', i) = CallsTo(calls, i)]_vars

\* C1 witness: the timer won, and afterwards two response frames addressed to
\* the correlation id were delivered.
C1_Witness ==
    \E i \in Invokes :
        /\ TimedOut(i)
        /\ Cardinality(SentTo(i)) = 2
        /\ InFlightTo(i) = {}
        /\ CallsTo(calls, i) = {}

\* C2: an invoke that no response settles is rejected with a Timeout error by
\* the timer exactly TIMEOUT_TICKS = 20 ticks after the timer was armed, and
\* the same step removes the response listener; no armed timer outlives its
\* 20 ticks.
C2_TimeoutAfterWindow ==
    /\ [](\A i \in Invokes :
            /\ TimedOut(i) => /\ invokes[i].timer = "fired"
                              /\ invokes[i].waited = 20
                              /\ ~HasResponseListener(i)
            /\ invokes[i].timer = "fired" => invokes[i].waited = 20
            /\ invokes[i].timer = "armed" => invokes[i].waited <= 20)
    /\ [][\A i \in Invokes :
            /\ invokes[i].outcome.s = "pending" /\ invokes'[i].timer = "fired"
                   => TimedOut(i)' /\ ~HasResponseListener(i)'
            /\ invokes[i].timer = "armed" /\ invokes[i].waited = 20
                   => invokes'[i].waited = 20]_vars

\* C2 witness: no frame addressed to the correlation id was ever sent, the
\* invoke has timed out and its listener is gone.
C2_Witness ==
    \E i \in Invokes :
        /\ TimedOut(i)
        /\ SentTo(i) = {}
        /\ invokes[i].waited = 20
        /\ ~HasResponseListener(i)

\* the dispatches, to an application listener, of the Invoke frame of invoke i
AnswersTo(i) ==
    {k \in 1..Len(calls) : /\ calls[k].via = "invoke"
                           /\ calls[k].re = invokes[i].rid
                           /\ calls[k].id = invokes[i].event}
\* what the listener that dispatch k called returns
Returned(k) == resultOf(listeners[calls[k].router][calls[k].id], calls[k].payload)
\* dispatch k has completed and every frame of its response has been delivered
Answered(i, k) ==
    /\ calls[k].state = "done"
    /\ \A j \in 1..Len(jobs) : jobs[j].cause # Cause("call", k)
    /\ SentTo(i) # {}
    /\ InFlightTo(i) = {}

\* C3: when the listener of the invoked event returns a value V that is no
\* Failure, and the Invoke frame and the whole response are delivered before
\* the timer fires, the invoke is resolved with exactly V.
C3_ResolvesWithValue ==
    \A i \in Invokes : \A k \in AnswersTo(i) :
        (/\ Returned(k).t \in {"null", "string"}
         /\ Answered(i, k)
         /\ invokes[i].timer # "fired")
        => invokes[i].outcome = Resolved(Returned(k))

C5_IndependentInvokes ==
    /\ [](\A i, j \in Invokes :
            /\ (i # j /\ invokes[i].router = invokes[j].router)
                   => invokes[i].rid # invokes[j].rid
            /\ invokes[i].outcome.s = "resolved"
                   => stringify(invokes[i].outcome.v) = invokes[i].payload)
    /\ [][\A i, j \in Invokes :
            (/\ i # j
             /\ invokes[i].outcome.s = "pending"
             /\ invokes'[i].outcome.s = "resolved")
            => /\ invokes'[j] = invokes[j]
               /\ HasResponseListener(j)' = HasResponseListener(j)]_vars

\* C5 witness: two invokes were pending together, the response to the second
\* was dispatched before the response to the first, and each is resolved with
\* its own payload.
C5_Witness ==
    /\ Len(invokes) >= 2
    /\ invokes[1].outcome = Resolved(NthValue(0))
    /\ invokes[2].outcome = Resolved(NthValue(1))
    /\ \E k1, k2 \in 1..Len(calls) :
           /\ k1 < k2
           /\ calls[k1].id = invokes[2].rid
           /\ calls[k2].id = invokes[1].rid

\* the frames sent in response to dispatch k
ResponsesTo(k) == {n \in 1..Len(sent) : sent[n].cause = Cause("call", k)}

\* C6: every Invoke frame dispatched to a listener gets exactly one response
\* frame once the listener has completed (none before), addressed to the
\* frame's responseEventId and carrying what the listener returned, a Failure
\* as the reserved-key envelope, or null when the listener threw.
C6_OneResponsePerInvoke ==
    \A k \in 1..Len(calls) :
        calls[k].via = "invoke" =>
            IF calls[k].state = "suspended"
            THEN ResponsesTo(k) = {}
            ELSE /\ Cardinality(ResponsesTo(k)) = 1
                 /\ \A n \in ResponsesTo(k) :
                        /\ sent[n].id = calls[k].re
                        /\ sent[n].message =
                               <<F_SEND>> \o stringify(responseFor(Returned(k)))

\* the local part of an event id: what follows its first colon
HasColon(event) == \E i \in 1..Len(event) : event[i] = ":"
LocalPart(event) ==
    SubSeq(event, Min({i \in 1..Len(event) : event[i] = ":"}) + 1, Len(event))
\* the step is the call op(r, e, ...) of router r
IsCall(op) == ret'.n = ret.n + 1 /\ ret'.op = op
SameEntries(old, new, ids) == \A x \in ids : Has(new, x) /\ new[x] = old[x]
OtherRoutersKeep(r) == \A q \in Routers \ {r} : listeners'[q] = listeners[q]

\* C7: registerListener(eventId, handler) throws and leaves the registry as
\* it was when eventId is already registered, has no colon, or has a local
\* part that starts with the underscore; otherwise it adds exactly the entry
\* eventId -> handler.  It never replaces the handler of a registered id.
C7_RegisterListener ==
    [][IsCall("registerListener") =>
        LET r == ret'.router
            e == ret'.event
            invalid == \/ Has(listeners[r], e)
                       \/ ~HasColon(e)
                       \/ (Len(LocalPart(e)) > 0 /\ LocalPart(e)[1] = "_")
        IN  /\ OtherRoutersKeep(r)
            /\ SameEntries(listeners[r], listeners'[r], DOMAIN listeners[r])
            /\ IF invalid
               THEN ret'.threw /\ listeners'[r] = listeners[r]
               ELSE /\ ~ret'.threw
                    /\ DOMAIN listeners'[r] = (DOMAIN listeners[r]) \cup {e}
                    /\ listeners'[r][e] = ret'.callback]_vars

\* C7 witness: a registration under an id that another handler already holds
\* threw, and the handler registered first is still there.
C7_Witness ==
    /\ ret.op = "registerListener"
    /\ ret.threw
    /\ Has(listeners[ret.router], ret.event)
    /\ listeners[ret.router][ret.event] # ret.callback

\* C8: removeListener(eventId) returns true exactly when eventId was
\* registered just before the call; afterwards eventId is not registered and
\* every other entry is as it was; called again right away it returns false.
C8_RemoveListener ==
    [][IsCall("removeListener") =>
        LET r == ret'.router
            e == ret'.event
        IN  /\ ret'.value = Has(listeners[r], e)
            /\ ~ret'.threw
            /\ ~Has(listeners'[r], e)
            /\ DOMAIN listeners'[r] = (DOMAIN listeners[r]) \ {e}
            /\ SameEntries(listeners[r], listeners'[r], (DOMAIN listeners[r]) \ {e})
            /\ OtherRoutersKeep(r)
            /\ (ret.op = "removeListener" /\ ret.router = r /\ ret.event = e)
                   => ret'.value = FALSE]_vars

\* C8 witness: a removal returned true, the id is gone and another entry of
\* the registry is still there.
C8_Witness ==
    /\ ret.op = "removeListener"
    /\ ret.value = TRUE
    /\ listeners[ret.router] # EmptyMap
    /\ ~Has(listeners[ret.router], ret.event)

\* the frames that the n-th send / sendStream / sendAuto call has emitted
SendFrames(n) == SelectSeq(sent, LAMBDA x : x.cause = Cause("send", n))
\* the n-th call streams its payload
Streams(n) ==
    \/ sends[n].api = "sendStream"
    \/ sends[n].api = "sendAuto" /\ Len(sends[n].serialized) > MAX_MESSAGE_LENGTH
\* the n-th call has nothing left to emit
Emitted(n) ==
    /\ ~sends[n].threw
    /\ \A j \in 1..Len(jobs) : jobs[j].cause = Cause("send", n) => jobs[j].frames = <<>>
    /\ SendFrames(n) # <<>>
\* a chunk message read field by field: flag, stream id, space, t or f,
\* space, fragment
FirstSpace(message) == Min({i \in 1..Len(message) : message[i] = SP})
ChunkFlag(message) == message[FirstSpace(message) + 1]
ChunkFragment(message) == SubSeq(message, FirstSpace(message) + 3, Len(message))
RECURSIVE JoinFragments(_)
JoinFragments(frames) ==
    IF frames = <<>> THEN <<>>
    ELSE ChunkFragment(Head(frames).message) \o JoinFragments(Tail(frames))
IsPrefix(p, s) == Len(p) <= Len(s) /\ SubSeq(s, 1, Len(p)) = p
InTransport(x) == \E k \in 1..Len(transport) : transport[k] = Frame(x.id, x.message)
\* the last frame of the n-th call has been emitted and delivered
Arrived(n) ==
    /\ Emitted(n)
    /\ ~InTransport(SendFrames(n)[Len(SendFrames(n))])

\* C9: when the chunks that the splitter makes of a serialized payload S are
\* delivered in emission order to a router with a listener for the event id,
\* the listener is called exactly once for the stream, when the terminal
\* chunk is processed and not before, and the content it is called with is
\* exactly S.
C9_StreamRoundTrip ==
    /\ Len(calls) = Cardinality({n \in 1..Len(sends) : Arrived(n)})
    /\ \A n \in 1..Len(sends) :
           Streams(n) =>
               LET handed == {k \in 1..Len(calls) :
                                 /\ calls[k].router = "b"
                                 /\ calls[k].raw = sends[n].serialized}
               IN  IF Arrived(n) THEN Cardinality(handed) = 1 ELSE handed = {}

\* C10: send of a payload whose serialized length is at most the limit emits
\* exactly one frame; sendAuto of a payload whose serialized length exceeds
\* the limit emits at least two chunks.  In every chunk sequence the length
\* of each fragment plus the per-fragment overhead is at most the limit, the
\* fragments joined in emission order are the serialized payload, the last
\* chunk carries "t" and every other chunk "f".  (The recursion of splitLoop
\* ends for each payload, or the evaluation of a send would not.)
C10_OutboundSizing ==
    \A n \in 1..Len(sends) :
        LET s == sends[n]
            fs == SendFrames(n)
        IN  /\ (s.api = "send" /\ Len(s.serialized) <= MAX_MESSAGE_LENGTH) =>
                   /\ Len(fs) = 1
                   /\ fs[1].message = <<F_SEND>> \o s.serialized
            /\ (s.api = "sendAuto" /\ Len(s.serialized) > MAX_MESSAGE_LENGTH /\ Emitted(n)) =>
                   Len(fs) >= 2
            /\ Streams(n) =>
                   /\ \A i \in 1..Len(fs) :
                          /\ Len(ChunkFragment(fs[i].message)) + STREAM_MESSAGE_PADDING
                                 <= MAX_MESSAGE_LENGTH
                          /\ ChunkFlag(fs[i].message) =
                                 IF Emitted(n) /\ i = Len(fs) THEN "t" ELSE "f"
                   /\ IsPrefix(JoinFragments(fs), s.serialized)
                   /\ Emitted(n) => JoinFragments(fs) = s.serialized

\* C10 witness: a sendAuto above the limit has emitted all of its three
\* chunks, and a send of exactly the limit has emitted its one frame.
C10_Witness ==
    \E n, m \in 1..Len(sends) :
        /\ sends[n].api = "sendAuto"
        /\ Emitted(n)
        /\ Len(SendFrames(n)) = 3
        /\ sends[m].api = "send"
        /\ Len(sends[m].serialized) = MAX_MESSAGE_LENGTH
        /\ Len(SendFrames(m)) = 1

\* the frames that invoke i has handed to the transport
InvokeFrames(i) == SelectSeq(sent, LAMBDA x : x.cause = Cause("invoke", i))
\* the message of invoke i: correlation id, space, serialized payload
InvokeMessage(i) == invokes[i].rid \o <<SP>> \o invokes[i].payload

\* C11: an invoke or send (not the Auto or Stream variants) whose message is
\* longer than the limit, called without force, fails with the Oversize error
\* and hands no frame to the transport; called with force, it hands its one
\* frame to the transport with the message unchanged.
C11_OversizeOrForce ==
    /\ \A i \in Invokes :
           (invokes[i].api = "invoke" /\ Len(InvokeMessage(i)) > MAX_MESSAGE_LENGTH) =>
               IF invokes[i].force
               THEN /\ Len(InvokeFrames(i)) = 1
                    /\ InvokeFrames(i)[1].message = <<F_INVOKE>> \o InvokeMessage(i)
                    /\ invokes[i].outcome # Rejected(OversizeError)
               ELSE /\ InvokeFrames(i) = <<>>
                    /\ invokes[i].outcome = Rejected(OversizeError)
    /\ \A n \in 1..Len(sends) :
           (sends[n].api = "send" /\ Len(sends[n].serialized) > MAX_MESSAGE_LENGTH) =>
               IF sends[n].force
               THEN /\ ~sends[n].threw
                    /\ Len(SendFrames(n)) = 1
                    /\ SendFrames(n)[1].message = <<F_SEND>> \o sends[n].serialized
               ELSE /\ sends[n].threw
                    /\ SendFrames(n) = <<>>

\* C11 witness: an invoke one character over the limit was rejected with the
\* Oversize error, and the same invoke made with force was answered.
C11_Witness ==
    \E i, j \in Invokes :
        /\ Len(InvokeMessage(i)) = MAX_MESSAGE_LENGTH + 1
        /\ ~invokes[i].force
        /\ invokes[i].outcome = Rejected(OversizeError)
        /\ Len(InvokeMessage(j)) = MAX_MESSAGE_LENGTH + 1
        /\ invokes[j].force
        /\ invokes[j].outcome = Resolved(SmallValue)

\* the step is the transport's delivery of a frame: the only step that takes
\* a frame off the transport
IsDeliver == Len(transport') - Len(transport) = Len(sent') - Len(sent) - 1
\* the step leaves router r as it is and makes it do nothing
Untouched(r) ==
    /\ listeners'[r] = listeners[r]
    /\ pendingStreams'[r] = pendingStreams[r]
    /\ \A k \in (Len(calls) + 1)..Len(calls') : calls'[k].router # r
    /\ \A k \in (Len(sent) + 1)..Len(sent') : sent'[k].by # r
    /\ \A k \in (Len(jobs) + 1)..Len(jobs') : jobs'[k].router # r
    /\ \A k \in (Len(tasks) + 1)..Len(tasks') : tasks'[k].router # r

\* C12: destroy() settles and cancels nothing: it leaves every timer and
\* every response listener as it is; an invoke of a destroyed router that is
\* pending keeps its response listener and its timer (armed, or still to be
\* armed while its stream is emitted), no response resolves it, and the only
\* way it is settled is the Timeout rejection when its timer fires.
C12_DestroyKeepsInvokes ==
    /\ [](\A i \in Invokes :
            (~isValid[invokes[i].router] /\ invokes[i].outcome = Pending) =>
                /\ HasResponseListener(i)
                /\ invokes[i].timer \in {"armed", "unset"}
                /\ invokes[i].timer = "unset" =>
                       \E j \in 1..Len(jobs) : jobs[j].inv = i)
    /\ [][/\ IsCall("destroy") =>
                /\ listeners' = listeners
                /\ invokes' = invokes
                /\ jobs' = jobs
          /\ \A i \in Invokes :
                (~isValid[invokes[i].router] /\ invokes[i].outcome = Pending) =>
                    /\ invokes'[i].outcome \in {Pending, Rejected(TimeoutError)}
                    /\ invokes'[i].timer = "fired" => TimedOut(i)']_vars

\* C12 witness: router a was destroyed while its invoke was pending; the
\* response was sent and delivered afterwards, and the invoke timed out.
C12_Witness ==
    /\ ret.op = "destroy"
    /\ ret.router = "a"
    /\ ret.value
    /\ \E i \in Invokes :
           /\ TimedOut(i)
           /\ SentTo(i) # {}
           /\ InFlightTo(i) = {}

\* C13: isValid is true until the first destroy() and false ever after; a
\* second destroy() changes nothing.  A frame delivered after destroy() calls
\* no listener of the router, makes it send nothing, and leaves its listener
\* registry and its stream buffers as they are.
C13_Lifecycle ==
    [][/\ \A r \in Routers :
            /\ ~isValid[r] => ~isValid'[r]
            /\ isValid'[r] # isValid[r] => IsCall("destroy") /\ ret'.router = r
            /\ (IsDeliver /\ ~isValid[r]) => Untouched(r)
       /\ IsCall("destroy") =>
            /\ ~isValid'[ret'.router]
            /\ ~isValid[ret'.router] =>
                   UNCHANGED <<uid, subscribers, isValid, listeners, pendingStreams,
                               listenerUidsGenerated, streamUidsGenerated, transport,
                               jobs, invokes, tasks, sent, calls, sends, uncaught>>]_vars

\* C13 witness: router b, which has a listener for EventE, was destroyed
\* twice; the Invoke frame for EventE was delivered and called no listener.
C13_Witness ==
    /\ ret.n = 2
    /\ ret.op = "destroy"
    /\ ret.router = "b"
    /\ ~isValid["b"]
    /\ Has(listeners["b"], EventE)
    /\ \E k \in 1..Len(sent) : sent[k].id = EventE
    /\ transport = <<>>
    /\ calls = <<>>


(***************************************************************************)
(* C14.  The constructor throws and subscribes to nothing unless the uid   *)
(* has at least one character and fewer than MAX_ROUTER_UID_LENGTH          *)
(* characters; for every uid within that bound it returns and has          *)
(* subscribed the router to inbound delivery exactly once.                 *)
(***************************************************************************)
Subscriptions(r) == Cardinality({n \in 1..Len(subscribers) : subscribers[n] = r})

C14_ConstructorBound ==
    [][\A r \in Routers :
        (ret'.n = ret.n + 1 /\ ret'.op = "constructor" /\ ret'.router = r) =>
            LET u == ret'.event
                allowed == Len(u) >= 1 /\ Len(u) < MAX_ROUTER_UID_LENGTH
            IN  /\ ret'.threw <=> ~allowed
                /\ ret'.threw => subscribers' = subscribers
                /\ ~ret'.threw => /\ Subscriptions(r) = 0
                                  /\ Subscriptions(r)' = 1
                                  /\ subscribers' = Append(subscribers, r)]_vars

(***************************************************************************)
(* C15.  Once a response frame has settled an invoke or invokeStream, no   *)
(* listener is registered under its correlation id and its timer is        *)
(* neither armed nor fires later, also when the response to an             *)
(* invokeStream arrives before the stream's send has completed.            *)
(***************************************************************************)
SettledByResponse(i) == invokes[i].outcome # Pending /\ ~TimedOut(i)

C15_ResponseCancelsTimer ==
    \A i \in Invokes :
        SettledByResponse(i) =>
            /\ ~HasResponseListener(i)
            /\ invokes[i].timer \notin {"armed", "fired"}

(***************************************************************************)
(* C16.  The timer of a streamed invoke is not armed, and the invoke is    *)
(* not rejected with a timeout, in any state in which a chunk of the call  *)
(* is still to be transmitted, however many ticks pass meanwhile; the      *)
(* timer is armed by the step that ends the stream, with its full window   *)
(* of TIMEOUT_TICKS ticks ahead.                                           *)
(***************************************************************************)
ChunksLeft(i) == \E j \in 1..Len(jobs) : jobs[j].inv = i /\ jobs[j].frames # <<>>
Emitting(i) == \E j \in 1..Len(jobs) : jobs[j].inv = i

C16_TimerAfterLastChunk ==
    /\ [](\A i \in Invokes :
            /\ ChunksLeft(i) => invokes[i].timer = "unset" /\ ~TimedOut(i)
            /\ (invokes[i].stream /\ TimedOut(i)) => invokes[i].waited = TIMEOUT_TICKS)
    /\ [][\A i \in Invokes :
            (invokes[i].stream /\ invokes[i].timer # "armed" /\ invokes'[i].timer = "armed") =>
                /\ Emitting(i) /\ ~ChunksLeft(i)
                /\ ~Emitting(i)'
                /\ invokes'[i].left = TIMEOUT_TICKS
                /\ invokes'[i].waited = 0]_vars

\* C16 witness: a streamed invoke has emitted a chunk and still has one to
\* transmit when a plain invoke made after it has already run into its
\* timeout, 20 ticks later; the streamed invoke is pending with no timer.
C16_Witness ==
    /\ Len(invokes) >= 2
    /\ invokes[1].stream /\ ChunksLeft(1) /\ InvokeFrames(1) # <<>>
    /\ invokes[1].outcome = Pending /\ invokes[1].timer = "unset"
    /\ TimedOut(2) /\ invokes[2].waited = TIMEOUT_TICKS

(***************************************************************************)
(* C17.  invokeAuto mints one correlation id.  When the serialized payload *)
(* and the correlation id and the separator between them have at most      *)
(* MAX_MESSAGE_LENGTH characters together, it transmits one Invoke frame    *)
(* that carries them; otherwise it transmits them as InvokeStream chunks.  *)
(* The call leaves the router in the state that invoke, respectively       *)
(* invokeStream, leaves it in for the same arguments.                      *)
(***************************************************************************)
Fits(i) == Len(invokes[i].payload) + Len(invokes[i].rid) + 1 <= MAX_MESSAGE_LENGTH
Flag(x) == x.message[1]
NamedAs(st, i, api) == [st EXCEPT !.invokes[i].api = api]

C17_InvokeAuto ==
    /\ [](\A i \in Invokes :
            invokes[i].api = "invokeAuto" =>
                /\ invokes[i].rid =
                       generateListenerUid(Uid(invokes[i].router), i - 1)
                /\ listenerUidsGenerated[invokes[i].router] = Len(invokes)
                /\ IF Fits(i)
                   THEN /\ ~invokes[i].stream /\ ~Emitting(i)
                        /\ Len(InvokeFrames(i)) = 1
                        /\ InvokeFrames(i)[1].message = <<F_INVOKE>> \o InvokeMessage(i)
                   ELSE /\ invokes[i].stream
                        /\ \A n \in 1..Len(InvokeFrames(i)) :
                               Flag(InvokeFrames(i)[n]) = F_INVOKE_STREAM
                        /\ ~Emitting(i) => JoinFragments(InvokeFrames(i)) = InvokeMessage(i))
    /\ [][\A value \in AutoValues :
            LET i == Len(invokes) + 1
                inv == invokes'[i]
                api == IF Len(inv.payload) + Len(inv.rid) + 1 <= MAX_MESSAGE_LENGTH
                       THEN "invoke" ELSE "invokeStream"
            IN  (/\ Len(invokes') = i
                 /\ inv.api = "invokeAuto"
                 /\ inv.payload = stringify(value)) =>
                    State' = NamedAs(invokeCall(State, inv.router, api, inv.event, value,
                                                inv.throwFailures, inv.force),
                                     i, "invokeAuto")]_vars

\* C17 witness: an invokeAuto whose message is one character longer than
\* MAX_MESSAGE_LENGTH was streamed in two chunks under a fresh stream id and
\* was answered.
C17_Witness ==
    \E i \in Invokes :
        /\ invokes[i].api = "invokeAuto"
        /\ Len(InvokeMessage(i)) = MAX_MESSAGE_LENGTH + 1
        /\ Len(InvokeFrames(i)) = 2
        /\ streamUidsGenerated[invokes[i].router] = 1
        /\ invokes[i].outcome = Resolved(SmallValue)

(***************************************************************************)
(* C18.  The delivery of a frame to a router that has no listener under    *)
(* the frame's event id does nothing, whatever the frame's type: the       *)
(* router calls no handler, sends no frame, starts nothing, and its        *)
(* listener registry and stream buffers stay as they are; when no router   *)
(* has a listener under the id, no error is raised either.                 *)
(***************************************************************************)
Listens(r, id) == Has(listeners[r], id)
Delivered == Head(transport)

C18_NoListenerNoOp ==
    [][IsDeliver =>
          /\ \A r \in Routers : ~Listens(r, Delivered.id) => Untouched(r)
          /\ (\A r \in Routers : ~Listens(r, Delivered.id)) =>
                 /\ transport' = Tail(transport)
                 /\ UNCHANGED <<uid, subscribers, isValid, listeners, pendingStreams,
                                listenerUidsGenerated, streamUidsGenerated, jobs,
                                invokes, tasks, sent, calls, sends, uncaught, ret>>]_vars

\* C18 witness: both chunks of a stream addressed to an id that no router
\* listens on were delivered: nothing is buffered, no listener was called.
C18_Witness ==
    /\ Len(sent) = 2
    /\ sent[1].id = NoListenerId /\ sent[2].id = NoListenerId
    /\ sent[1].message = <<F_SEND_STREAM, "x", "0", SP, "f", SP, QUOTE, "v">>
    /\ sent[2].message = <<F_SEND_STREAM, "x", "0", SP, "t", SP, QUOTE>>
    /\ transport = <<>>
    /\ calls = <<>>
    /\ \A r \in Routers : pendingStreams[r] = EmptyMap

(***************************************************************************)
(* C20.  A malformed frame delivered to a router that has a listener under *)
(* the frame's event id is dropped: a frame whose first character is no    *)
(* type flag, or a chunk whose body lacks the stream id, the terminal flag *)
(* or the fragment.  The router calls no handler, sends nothing, keeps its *)
(* registry and its stream buffers as they are, and no error is raised.    *)
(***************************************************************************)
Spaces(body) == {n \in 1..Len(body) : body[n] = SP}

\* stream id, space, t or f, space, fragment
ChunkHasFields(body) ==
    /\ Cardinality(Spaces(body)) >= 2
    /\ LET p == Min(Spaces(body))
       IN  /\ p > 1
           /\ p + 2 \in Spaces(body)
           /\ body[p + 1] \in {"t", "f"}

Malformed(rawMsg) ==
    \/ rawMsg = <<>>
    \/ rawMsg[1] \notin {F_SEND, F_INVOKE, F_SEND_STREAM, F_INVOKE_STREAM}
    \/ /\ rawMsg[1] \in {F_SEND_STREAM, F_INVOKE_STREAM}
       /\ ~ChunkHasFields(Tail(rawMsg))

C20_MalformedDropped ==
    [][(IsDeliver /\ Malformed(Delivered.message)) =>
          /\ \A r \in Routers : Listens(r, Delivered.id) => Untouched(r)
          /\ uncaught' = uncaught]_vars

(***************************************************************************)
(* C19.  Processing a Send frame or a reassembled SendStream transmits no  *)
(* frame and raises no error out of the router, whatever the handler does: *)
(* every frame on the transport is one that a send call dispatched, no     *)
(* error goes uncaught, the registry is the one the routers started with,  *)
(* and once every frame has been delivered no buffer is left and every    *)
(* send has been dispatched to the listener.                               *)
(***************************************************************************)
C19_SendContained ==
    /\ uncaught = {}
    /\ \A k \in 1..Len(sent) : sent[k].cause.k = "send"
    /\ \A r \in Routers : DOMAIN listeners[r] = IF r = "b" THEN {EventE} ELSE {}
    /\ (transport = <<>> /\ jobs = <<>>) =>
           /\ \A r \in Routers : pendingStreams[r] = EmptyMap
           /\ Len(calls) = Len(sends)

(***************************************************************************)
(* C21.  Whatever uid the constructor accepted, no id that                 *)
(* registerListener accepts is a correlation id of the router; so no step  *)
(* of an invoke replaces or removes a listener that the application        *)
(* registered.                                                             *)
(***************************************************************************)
C21_ReservedIds ==
    /\ [](\A k \in 0..MaxReservedInvokes :
            (ret.op = "registerListener" /\ ~ret.threw) =>
                ret.event # generateListenerUid(Uid(ret.router), k))
    /\ [][\A r \in Routers : \A id \in DOMAIN listeners[r] :
            listeners[r][id].kind = "app" =>
                /\ id \in DOMAIN listeners'[r]
                /\ listeners'[r][id] = listeners[r][id]]_vars

(***************************************************************************)
(* C22.  However registerListener and removeListener calls interleave with *)
(* the delivery of a stream's chunks, once the terminal chunk has been     *)
(* delivered no router holds a buffer under the stream's id; a buffer is   *)
(* removed only by the delivery of a terminal chunk.                       *)
(***************************************************************************)
ChunkStreamId(message) == SubSeq(message, 2, FirstSpace(message) - 1)

C22_BufferRemoved ==
    /\ [](\A n \in 1..Len(sends) :
            Arrived(n) =>
                \A r \in Routers :
                    ~Has(pendingStreams[r], ChunkStreamId(SendFrames(n)[1].message)))
    /\ [][\A r \in Routers : \A id \in DOMAIN pendingStreams[r] :
            ~Has(pendingStreams'[r], id) =>
                /\ IsDeliver
                /\ ChunkStreamId(Delivered.message) = id
                /\ ChunkFlag(Delivered.message) = "t"]_vars

(***************************************************************************)
(* C23.  When the chunks of streams with different stream ids reach a      *)
(* router interleaved, each in its own emission order, the content handed  *)
(* to the listener is always exactly the content of one of the streams,    *)
(* and once every chunk has been delivered each stream has been handed     *)
(* over exactly once.                                                      *)
(***************************************************************************)
HandedOver(text) == Cardinality({k \in 1..Len(calls) : calls[k].raw = text})
Streamed(text) == Cardinality({n \in 1..Len(sends) : sends[n].serialized = text})

C23_StreamsIsolated ==
    /\ \A k \in 1..Len(calls) : Streamed(calls[k].raw) > 0
    /\ \A value \in InterleaveValues :
           /\ HandedOver(stringify(value)) <= Streamed(stringify(value))
           /\ (transport = <<>> /\ jobs = <<>>) =>
                  HandedOver(stringify(value)) = Streamed(stringify(value))

(***************************************************************************)
(* C24.  Stream ids minted by routers with different uids are different:   *)
(* no two chunks dispatched by different routers carry the same stream id, *)
(* and the content handed to a listener is the content of one stream.      *)
(***************************************************************************)
C24_StreamIdsDistinct ==
    /\ \A k, m \in 1..Len(sent) :
           sent[k].by # sent[m].by =>
               ChunkStreamId(sent[k].message) # ChunkStreamId(sent[m].message)
    /\ \A k \in 1..Len(calls) : Streamed(calls[k].raw) > 0

(***************************************************************************)
(* C25.  An invoke that failed when it was to be transmitted, rejected as  *)
(* oversize with nothing sent, leaves nothing behind: no response listener *)
(* under its correlation id and no armed timer.                            *)
(***************************************************************************)
C25_NoResidue ==
    \A i \in Invokes :
        (invokes[i].outcome = Rejected(OversizeError) /\ InvokeFrames(i) = <<>>) =>
            /\ ~HasResponseListener(i)
            /\ invokes[i].timer # "armed"

====
